---------------------------- MODULE Spec2Model ----------------------------
(***************************************************************************)
(* The calculator component (components/Calculator): its state record, the *)
(* handlers that replace it, and the string/number conversions they use.   *)
(*                                                                         *)
(* Strings are sequences of one-character strings.  A JavaScript number is *)
(* a record: [k |-> "nan"], [k |-> "inf", neg], or a finite value          *)
(*   [k |-> "fin", neg, d, n]   with value  (-1)^neg * 0.d1d2..dk * 10^n   *)
(* where d is the sequence of significant decimal digits (no leading and   *)
(* no trailing zero; empty for zero).  This is the (s, k, n) triple of     *)
(* ECMAScript's Number::toString.                                          *)
(***************************************************************************)
EXTENDS Integers, Sequences, FiniteSets, TLC

VARIABLES display, previousValue, operation, emotion, mode, memory, angleUnit,
          rendered, crashed, event

vars == <<display, previousValue, operation, emotion, mode, memory, angleUnit,
          rendered, crashed, event>>

(***************************************************************************)
(* Bounds of the model and constants of the program.                       *)
(***************************************************************************)
MAX_DIGITS == 16

\* The display is edited (digits, the decimal point, backspace) while its
\* unformatted text is no longer than this.
MaxEntry == 2

\* Arithmetic is modelled on NaN, the infinities and the non-negative
\* integers of one significant digit and at most this magnitude.
MaxOperand == 50

\* The factorial is modelled up to this argument, and this argument and a
\* half.
MaxFactorial == 6

\* The call stack holds this many frames of factorial.
StackFrames == 16

\* formatNumber is applied to the unformatted strings whose integer part and
\* fraction have at most these many digits.
MaxIntegerLen == 7

MaxFractionLen == 3

\* The digit keys the model presses on a display of "0", and the ones it
\* presses to extend an entry.
Digits == {"0", "1", "2", "3", "5"}

PadDigits == {"0"}

Null == "null"

Operators == {"+", "-", "*", "/"}

(***************************************************************************)
(* Characters and strings.                                                 *)
(***************************************************************************)
DigitChars == <<"0", "1", "2", "3", "4", "5", "6", "7", "8", "9">>

IsDigit(c) == \E i \in 1..10 : DigitChars[i] = c

DigitVal(c) == (CHOOSE i \in 1..10 : DigitChars[i] = c) - 1

DigitChar(v) == DigitChars[v + 1]

\* \w of the regular expression: letters, digits and underscore.  The only
\* other characters a display can hold are the ones listed here.
IsWordChar(c) == c \notin {".", ",", "-", "+"}

RECURSIVE Repeat(_, _)
Repeat(c, k) == IF k <= 0 THEN <<>> ELSE <<c>> \o Repeat(c, k - 1)

\* String.prototype.includes for a single character.
Includes(s, c) == \E i \in 1..Len(s) : s[i] = c

\* Index of the first occurrence of c in s, or 0.
IndexOf(s, c) == IF Includes(s, c)
                 THEN CHOOSE i \in 1..Len(s) : s[i] = c /\ \A j \in 1..(i - 1) : s[j] # c
                 ELSE 0

\* String.prototype.split for a single-character separator.
RECURSIVE Split(_, _)
Split(s, c) == LET i == IndexOf(s, c)
               IN IF i = 0 THEN <<s>>
                  ELSE <<SubSeq(s, 1, i - 1)>> \o Split(SubSeq(s, i + 1, Len(s)), c)

\* Length of the run of digits of s that starts at position i.
RECURSIVE DigitRun(_, _)
DigitRun(s, i) == IF i > Len(s) \/ ~IsDigit(s[i]) THEN 0 ELSE 1 + DigitRun(s, i + 1)

\* /\B(?=(\d{3})+(?!\d))/ matches between s[i] and s[i+1]: no word boundary
\* there, and what follows is a run of digits whose length is a positive
\* multiple of three.
GroupBefore(s, i) == /\ i >= 1
                     /\ i < Len(s)
                     /\ IsWordChar(s[i])
                     /\ DigitRun(s, i + 1) > 0
                     /\ DigitRun(s, i + 1) % 3 = 0

\* s.replace(/\B(?=(\d{3})+(?!\d))/g, ',')
RECURSIVE InsertCommasFrom(_, _)
InsertCommasFrom(s, i) ==
    IF i > Len(s) THEN <<>>
    ELSE (IF GroupBefore(s, i) THEN <<s[i], ",">> ELSE <<s[i]>>) \o InsertCommasFrom(s, i + 1)

InsertCommas(s) == InsertCommasFrom(s, 1)

formatNumber(num) ==
    LET parts == Split(num, ".")
        integerPart == InsertCommas(parts[1])
    IN IF Len(parts) > 1 THEN integerPart \o <<".">> \o parts[2] ELSE integerPart

\* A faulty unformatNumber: replace without the g flag removes the first
\* comma only.
unformatNumberFirstOnly(num) ==
    LET i == IndexOf(num, ",")
    IN IF i = 0 THEN num ELSE SubSeq(num, 1, i - 1) \o SubSeq(num, i + 1, Len(num))

\* num.replace(/,/g, '')
unformatNumber(num) == SelectSeq(num, LAMBDA c : c # ",")

(***************************************************************************)
(* Numbers.                                                                *)
(***************************************************************************)
NaN == [k |-> "nan"]

Infinity(neg) == [k |-> "inf", neg |-> neg]

Fin(neg, d, n) == [k |-> "fin", neg |-> neg, d |-> d, n |-> n]

Zero(neg) == Fin(neg, <<>>, 0)

isNaN(x) == x.k = "nan"

isFinite(x) == x.k = "fin"

IsZero(x) == x.k = "fin" /\ x.d = <<>>

RECURSIVE StripLeadingZeros(_)
StripLeadingZeros(ds) ==
    IF ds # <<>> /\ Head(ds) = 0 THEN StripLeadingZeros(Tail(ds)) ELSE ds

RECURSIVE StripTrailingZeros(_)
StripTrailingZeros(ds) ==
    IF ds # <<>> /\ ds[Len(ds)] = 0 THEN StripTrailingZeros(SubSeq(ds, 1, Len(ds) - 1)) ELSE ds

\* The finite number (-1)^neg * 0.ds * 10^n, its digits normalised.
Normal(neg, ds, n) ==
    LET lead == StripLeadingZeros(ds)
        sig == StripTrailingZeros(lead)
    IN IF sig = <<>> THEN Zero(neg) ELSE Fin(neg, sig, n - (Len(ds) - Len(lead)))

RECURSIVE DigitsToNat(_)
DigitsToNat(ds) == IF ds = <<>> THEN 0 ELSE 10 * DigitsToNat(SubSeq(ds, 1, Len(ds) - 1)) + ds[Len(ds)]

RECURSIVE NatToDigits(_)
NatToDigits(v) == IF v = 0 THEN <<>> ELSE NatToDigits(v \div 10) \o <<v % 10>>

CharsToDigits(s) == [i \in 1..Len(s) |-> DigitVal(s[i])]

DigitsToChars(ds) == [i \in 1..Len(ds) |-> DigitChar(ds[i])]

NatToChars(v) == IF v = 0 THEN <<"0">> ELSE DigitsToChars(NatToDigits(v))

StartsWith(s, p) == Len(s) >= Len(p) /\ SubSeq(s, 1, Len(p)) = p

InfinityChars == <<"I", "n", "f", "i", "n", "i", "t", "y">>

ErrorChars == <<"E", "r", "r", "o", "r">>

\* The exponent part of a StrDecimalLiteral that starts at position p of s:
\* [taken |-> how many characters it takes, exp |-> its value].
ExponentPart(s, p) ==
    IF p <= Len(s) /\ s[p] \in {"e", "E"}
    THEN LET signed == p + 1 <= Len(s) /\ s[p + 1] \in {"+", "-"}
             q == IF signed THEN p + 2 ELSE p + 1
             r == DigitRun(s, q)
             v == DigitsToNat(CharsToDigits(SubSeq(s, q, q + r - 1)))
         IN IF r = 0 THEN [taken |-> 0, exp |-> 0]
            ELSE [taken |-> q + r - p, exp |-> IF signed /\ s[p + 1] = "-" THEN 0 - v ELSE v]
    ELSE [taken |-> 0, exp |-> 0]

\* parseFloat: the value of the longest prefix that is a StrDecimalLiteral,
\* NaN when there is none.
parseFloat(str) ==
    LET signed == Len(str) > 0 /\ str[1] \in {"+", "-"}
        neg == signed /\ str[1] = "-"
        body == IF signed THEN Tail(str) ELSE str
        i == DigitRun(body, 1)
        hasDot == Len(body) > i /\ body[i + 1] = "."
        f == IF hasDot THEN DigitRun(body, i + 2) ELSE 0
        mantEnd == IF hasDot THEN i + 1 + f ELSE i
        ex == ExponentPart(body, mantEnd + 1)
        all == CharsToDigits(SubSeq(body, 1, i) \o SubSeq(body, i + 2, i + 1 + f))
    IN IF StartsWith(body, InfinityChars) THEN Infinity(neg)
       ELSE IF i = 0 /\ f = 0 THEN NaN
       ELSE Normal(neg, all, i + ex.exp)

\* Number::toString(x), radix 10.
NumberToString(x) ==
    IF x.k = "nan" THEN <<"N", "a", "N">>
    ELSE IF x.k = "inf" THEN (IF x.neg THEN <<"-">> ELSE <<>>) \o InfinityChars
    ELSE IF x.d = <<>> THEN <<"0">>
    ELSE LET k == Len(x.d)
             n == x.n
             s == DigitsToChars(x.d)
             e == n - 1
             mag == IF k <= n /\ n <= 21 THEN s \o Repeat("0", n - k)
                    ELSE IF 0 < n /\ n <= 21
                         THEN SubSeq(s, 1, n) \o <<".">> \o SubSeq(s, n + 1, k)
                    ELSE IF -6 < n /\ n <= 0
                         THEN <<"0", ".">> \o Repeat("0", 0 - n) \o s
                    ELSE (IF k = 1 THEN s ELSE <<s[1], ".">> \o Tail(s))
                         \o <<"e", IF e < 0 THEN "-" ELSE "+">>
                         \o NatToChars(IF e < 0 THEN 0 - e ELSE e)
         IN (IF x.neg THEN <<"-">> ELSE <<>>) \o mag

\* ds + 1 as a digit sequence of the same length, or one longer on carry.
RECURSIVE IncDigits(_)
IncDigits(ds) ==
    IF ds = <<>> THEN <<1>>
    ELSE IF ds[Len(ds)] < 9 THEN SubSeq(ds, 1, Len(ds) - 1) \o <<ds[Len(ds)] + 1>>
    ELSE IncDigits(SubSeq(ds, 1, Len(ds) - 1)) \o <<0>>

\* Number.prototype.toExponential(fractionDigits) for a number whose decimal
\* digits are x.d: fractionDigits + 1 significant digits, rounded half up.
toExponential(x, fractionDigits) ==
    IF x.k = "nan" THEN <<"N", "a", "N">>
    ELSE IF x.k = "inf" THEN (IF x.neg THEN <<"-">> ELSE <<>>) \o InfinityChars
    ELSE LET w == fractionDigits + 1
             padded == x.d \o [i \in 1..w |-> 0]
             kept == SubSeq(padded, 1, w)
             up == Len(x.d) > w /\ x.d[w + 1] >= 5
             rounded == IF up THEN IncDigits(kept) ELSE kept
             carry == Len(rounded) > w
             m == DigitsToChars(SubSeq(rounded, 1, w))
             e == IF x.d = <<>> THEN 0 ELSE (x.n - 1) + (IF carry THEN 1 ELSE 0)
         IN (IF x.neg THEN <<"-">> ELSE <<>>)
            \o <<m[1], ".">> \o Tail(m)
            \o <<"e", IF e < 0 THEN "-" ELSE "+">>
            \o NatToChars(IF e < 0 THEN 0 - e ELSE e)

(***************************************************************************)
(* Arithmetic.  The operands the model computes with are NaN, the          *)
(* infinities and the integers of magnitude at most MaxOperand: on these   *)
(* +, - and * are exact in double precision, and so is a quotient whose    *)
(* decimal expansion terminates.  The factorial also subtracts from and    *)
(* multiplies the halves k + 0.5, which are exact in binary, as are their  *)
(* differences and the products the factorial forms of them.               *)
(***************************************************************************)
RECURSIVE Pow10(_)
Pow10(k) == IF k <= 0 THEN 1 ELSE 10 * Pow10(k - 1)

\* The value of a finite number is an integer of magnitude at most bound.
IsIntegerUpTo(x, bound) ==
    /\ x.k = "fin"
    /\ \/ x.d = <<>>
       \/ /\ Len(x.d) <= x.n
          /\ x.n <= Len(NatToDigits(bound))
          /\ DigitsToNat(x.d) * Pow10(x.n - Len(x.d)) <= bound

IsOperand(x) ==
    x.k \in {"nan", "inf"} \/ (IsIntegerUpTo(x, MaxOperand) /\ Len(x.d) <= 1 /\ ~x.neg)

\* The magnitude of an integer-valued finite number.
Magnitude(x) == DigitsToNat(x.d) * Pow10(x.n - Len(x.d))

\* The number of digits a finite number has after the decimal point.
FractionLen(x) == IF Len(x.d) > x.n THEN Len(x.d) - x.n ELSE 0

\* The magnitude of a finite number times 10^s, for s >= FractionLen(x).
Scaled(x, s) == DigitsToNat(x.d) * Pow10(s - (Len(x.d) - x.n))

\* The finite number (-1)^neg * v / 10^s.
FromScaled(neg, v, s) == Normal(neg, NatToDigits(v), Len(NatToDigits(v)) - s)

\* The value of a finite number is k + 0.5 for a natural k <= bound.
IsHalfUpTo(x, bound) ==
    IF x.k # "fin" THEN FALSE
    ELSE IF x.neg \/ x.n \notin {0, 1} \/ FractionLen(x) # 1 THEN FALSE
    ELSE Scaled(x, 1) % 10 = 5 /\ Scaled(x, 1) \div 10 <= bound

FromNat(neg, v) == Normal(neg, NatToDigits(v), Len(NatToDigits(v)))

\* The digits of r/b after the decimal point, r < b, until the expansion
\* ends or 17 significant digits (sig counts the ones so far) are out.
RECURSIVE FractionDigits(_, _, _)
FractionDigits(r, b, sig) ==
    IF r = 0 \/ sig >= 17 THEN <<>>
    ELSE LET dg == (r * 10) \div b
         IN <<dg>> \o FractionDigits((r * 10) % b, b, IF sig > 0 \/ dg > 0 THEN sig + 1 ELSE 0)

\* a / b for naturals a, b > 0: exact when the expansion terminates, and
\* otherwise its first 17 significant digits.
Ratio(neg, a, b) ==
    LET whole == NatToDigits(a \div b)
    IN Normal(neg, whole \o FractionDigits(a % b, b, Len(whole)), Len(whole))

\* The decimal expansion of a / b terminates.
RECURSIVE Terminates(_, _)
Terminates(a, b) ==
    IF b = 0 THEN FALSE
    ELSE IF b % 2 = 0 THEN Terminates(a, b \div 2)
    ELSE IF b % 5 = 0 THEN Terminates(a, b \div 5)
    ELSE a % b = 0

jsNeg(x) == IF x.k = "nan" THEN x ELSE [x EXCEPT !.neg = ~x.neg]

jsAdd(a, b) ==
    IF a.k = "nan" \/ b.k = "nan" THEN NaN
    ELSE IF a.k = "inf" /\ b.k = "inf" THEN (IF a.neg = b.neg THEN a ELSE NaN)
    ELSE IF a.k = "inf" THEN a
    ELSE IF b.k = "inf" THEN b
    ELSE LET s == IF FractionLen(a) > FractionLen(b) THEN FractionLen(a)
                  ELSE FractionLen(b)
             va == IF a.neg THEN 0 - Scaled(a, s) ELSE Scaled(a, s)
             vb == IF b.neg THEN 0 - Scaled(b, s) ELSE Scaled(b, s)
             sum == va + vb
         IN IF sum = 0 THEN Zero(IsZero(a) /\ IsZero(b) /\ a.neg /\ b.neg)
            ELSE FromScaled(sum < 0, IF sum < 0 THEN 0 - sum ELSE sum, s)

jsSub(a, b) == jsAdd(a, jsNeg(b))

jsMul(a, b) ==
    IF a.k = "nan" \/ b.k = "nan" THEN NaN
    ELSE IF a.k = "inf" \/ b.k = "inf"
         THEN (IF IsZero(a) \/ IsZero(b) THEN NaN ELSE Infinity(a.neg # b.neg))
    ELSE FromScaled(a.neg # b.neg,
                    Scaled(a, FractionLen(a)) * Scaled(b, FractionLen(b)),
                    FractionLen(a) + FractionLen(b))

jsDiv(a, b) ==
    IF a.k = "nan" \/ b.k = "nan" THEN NaN
    ELSE IF a.k = "inf" THEN (IF b.k = "inf" THEN NaN ELSE Infinity(a.neg # b.neg))
    ELSE IF b.k = "inf" THEN Zero(a.neg # b.neg)
    ELSE IF IsZero(b) THEN (IF IsZero(a) THEN NaN ELSE Infinity(a.neg # b.neg))
    ELSE IF IsZero(a) THEN Zero(a.neg # b.neg)
    ELSE Ratio(a.neg # b.neg, Magnitude(a), Magnitude(b))

\* a > b for a number a and a natural b.
RECURSIVE DigitsGreater(_, _)
DigitsGreater(a, b) ==
    IF a = <<>> THEN FALSE
    ELSE IF b = <<>> THEN TRUE
    ELSE IF Head(a) # Head(b) THEN Head(a) > Head(b)
    ELSE DigitsGreater(Tail(a), Tail(b))

jsGreaterNat(a, b) ==
    IF a.k = "nan" THEN FALSE
    ELSE IF a.k = "inf" THEN ~a.neg
    ELSE IF a.neg \/ a.d = <<>> THEN FALSE
    ELSE IF b = 0 THEN TRUE
    ELSE LET bd == NatToDigits(b)
         IN IF a.n # Len(bd) THEN a.n > Len(bd)
            ELSE DigitsGreater(a.d, StripTrailingZeros(bd))

\* a < 0
jsNegative(a) ==
    IF a.k = "nan" THEN FALSE
    ELSE IF a.k = "inf" THEN a.neg
    ELSE a.neg /\ a.d # <<>>

jsLessEqNat(a, b) == a.k # "nan" /\ ~jsGreaterNat(a, b)

One == FromNat(FALSE, 1)

\* Math.PI and Math.E
PI == Fin(FALSE, <<3, 1, 4, 1, 5, 9, 2, 6, 5, 3, 5, 8, 9, 7, 9, 3>>, 1)

E == Fin(FALSE, <<2, 7, 1, 8, 2, 8, 1, 8, 2, 8, 4, 5, 9, 0, 4, 5>>, 1)

(***************************************************************************)
(* The component's helpers.                                                *)
(***************************************************************************)
\* A faulty getEmotion: the thresholds taken as inclusive.
getEmotionInclusive(result) ==
    IF jsGreaterNat(result, 1000) \/ result = FromNat(FALSE, 1000) THEN "excited"
    ELSE IF jsGreaterNat(result, 100) \/ result = FromNat(FALSE, 100) THEN "happy"
    ELSE IF jsNegative(result) THEN "sad"
    ELSE "neutral"

\* A faulty getEmotion: the lower threshold tested first.
getEmotionHappyFirst(result) ==
    IF jsGreaterNat(result, 100) THEN "happy"
    ELSE IF jsGreaterNat(result, 1000) THEN "excited"
    ELSE IF jsNegative(result) THEN "sad"
    ELSE "neutral"

getEmotion(result) ==
    IF jsGreaterNat(result, 1000) THEN "excited"
    ELSE IF jsGreaterNat(result, 100) THEN "happy"
    ELSE IF jsNegative(result) THEN "sad"
    ELSE "neutral"

\* Math.PI / 180
PiOver180 == Fin(FALSE, <<1, 7, 4, 5, 3, 2, 9, 2, 5, 1, 9, 9, 4, 3, 2, 9, 5>>, -1)

\* The angle the model takes the trigonometric functions of, other than
\* zero: 30, and 30 degrees in radians, 30 * (Math.PI / 180), which is the
\* double 0.5235987755982988.
Thirty == Fin(FALSE, <<3>>, 2)

ThirtyDegrees == Fin(FALSE, <<5, 2, 3, 5, 9, 8, 7, 7, 5, 5, 9, 8, 2, 9, 8, 8>>, 0)

\* degrees * (Math.PI / 180) on NaN, the infinities and the zeros - the
\* product with a positive finite factor is NaN, the same infinity, or the
\* same zero - and on 30.
toRadians(degrees) ==
    CASE degrees.k = "nan" -> NaN
      [] degrees.k = "inf" -> Infinity(degrees.neg # PiOver180.neg)
      [] IsZero(degrees) -> Zero(degrees.neg # PiOver180.neg)
      [] degrees = Thirty -> ThirtyDegrees

\* A faulty factorial: the base case returns its argument.
RECURSIVE factorialReturnsArgument(_)
factorialReturnsArgument(n) ==
    IF jsNegative(n) THEN NaN
    ELSE IF jsLessEqNat(n, 1) THEN n
    ELSE jsMul(n, factorialReturnsArgument(jsSub(n, One)))

RECURSIVE factorial(_)
factorial(n) ==
    IF jsNegative(n) THEN NaN
    ELSE IF jsLessEqNat(n, 1) THEN One
    ELSE jsMul(n, factorial(jsSub(n, One)))

\* A faulty factorial: the recursion ends at exactly 0 or 1 only.
RECURSIVE factorialReturnsAtIntegersOnly(_, _)
factorialReturnsAtIntegersOnly(n, frames) ==
    IF frames = 0 THEN FALSE
    ELSE IF n = Zero(FALSE) \/ n = One THEN TRUE
    ELSE factorialReturnsAtIntegersOnly(jsSub(n, One), frames - 1)

\* factorial(n) returns within the given number of stack frames: the calls
\* that factorial makes, without the products.
RECURSIVE factorialReturns(_, _)
factorialReturns(n, frames) ==
    IF frames = 0 THEN FALSE
    ELSE IF jsNegative(n) THEN TRUE
    ELSE IF jsLessEqNat(n, 1) THEN TRUE
    ELSE factorialReturns(jsSub(n, One), frames - 1)

\* factorial(n) exhausts the stack (a RangeError): of NaN and of +Infinity
\* n < 0 and n <= 1 are both false and n - 1 is n again.
factorialOverflows(n) == ~factorialReturns(n, StackFrames)

\* Math.sin, Math.cos and Math.tan on NaN, the infinities and the zeros,
\* and the doubles they return on 30 and on 0.5235987755982988.
mathTrig(func, x) ==
    IF x.k # "fin" THEN NaN
    ELSE IF IsZero(x) THEN (IF func = "cos" THEN One ELSE x)
    ELSE IF x = Thirty
         THEN CASE func = "sin" -> Fin(TRUE, <<9, 8, 8, 0, 3, 1, 6, 2, 4, 0, 9, 2, 8, 6, 1, 8>>, 0)
                [] func = "cos" -> Fin(FALSE, <<1, 5, 4, 2, 5, 1, 4, 4, 9, 8, 8, 7, 5, 8, 4, 0, 5>>, 0)
                [] func = "tan" -> Fin(TRUE, <<6, 4, 0, 5, 3, 3, 1, 1, 9, 6, 6, 4, 6, 2, 7, 6>>, 1)
    ELSE CASE x = ThirtyDegrees /\ func = "sin" -> Fin(FALSE, <<4, 9, 9, 9, 9, 9, 9, 9, 9, 9, 9, 9, 9, 9, 9, 9, 4>>, 0)
           [] x = ThirtyDegrees /\ func = "cos" -> Fin(FALSE, <<8, 6, 6, 0, 2, 5, 4, 0, 3, 7, 8, 4, 4, 3, 8, 7>>, 0)
           [] x = ThirtyDegrees /\ func = "tan" -> Fin(FALSE, <<5, 7, 7, 3, 5, 0, 2, 6, 9, 1, 8, 9, 6, 2, 5, 7>>, 0)

\* Math.sqrt of a perfect square, a zero, an infinity, NaN or a negative.
mathSqrt(x) ==
    IF x.k = "nan" \/ jsNegative(x) THEN NaN
    ELSE IF x.k = "inf" \/ IsZero(x) THEN x
    ELSE FromNat(FALSE, CHOOSE r \in 0..Magnitude(x) : r * r = Magnitude(x))

\* Math.pow(x, 2) and Math.pow(x, 3)
mathPow(x, y) ==
    IF x.k = "nan" THEN NaN
    ELSE IF x.k = "inf" THEN Infinity(x.neg /\ y % 2 = 1)
    ELSE FromNat(x.neg /\ y % 2 = 1,
                 IF y = 2 THEN Magnitude(x) * Magnitude(x)
                 ELSE Magnitude(x) * Magnitude(x) * Magnitude(x))

\* Math.log10 and Math.log where the result is exact: of 1 (and of 10 in
\* base 10), of a zero, of an infinity, of NaN and of a negative.
mathLog(base10, x) ==
    IF x.k = "nan" \/ jsNegative(x) THEN NaN
    ELSE IF x.k = "inf" THEN x
    ELSE IF IsZero(x) THEN Infinity(TRUE)
    ELSE IF base10 /\ Magnitude(x) = 10 THEN One
    ELSE Zero(FALSE)

\* Math.exp on NaN, the infinities and the zeros.
mathExp(x) ==
    IF x.k = "nan" THEN NaN
    ELSE IF x.k = "inf" THEN (IF x.neg THEN Zero(FALSE) ELSE x)
    ELSE One

\* x is an integer of magnitude at most bound whose magnitude is in the set.
IsIntegerIn(x, bound, set) == IsIntegerUpTo(x, bound) /\ Magnitude(x) \in set

\* The arguments on which the model computes the function exactly.
Computable(func, x) ==
    IF x.k # "fin" \/ func \in {"pi", "e"} THEN TRUE
    ELSE CASE func \in {"sin", "cos", "tan"} -> IsZero(x) \/ x = Thirty
           [] func = "exp" -> IsZero(x)
           [] func = "sqrt" ->
                  IsIntegerIn(x, MaxOperand, {r * r : r \in 0..MaxOperand}) \/ jsNegative(x)
           [] func \in {"square", "cube"} -> IsOperand(x)
           [] func = "log" -> IsIntegerIn(x, MaxOperand, {0, 1, 10}) \/ jsNegative(x)
           [] func = "ln" -> IsIntegerIn(x, MaxOperand, {0, 1}) \/ jsNegative(x)
           [] func = "!" -> IsIntegerUpTo(x, MaxFactorial) \/ jsNegative(x)
                            \/ IsHalfUpTo(x, MaxFactorial)
           [] func = "inv" ->
                  IsIntegerIn(x, MaxOperand, {v \in 0..MaxOperand : v = 0 \/ Terminates(1, v)})
           [] OTHER -> TRUE

Functions == {"sin", "cos", "tan", "sqrt", "square", "cube", "log", "ln", "!",
              "inv", "exp", "pi", "e"}

(***************************************************************************)
(* The state record and the updaters passed to setState: each is the new   *)
(* record as a function of the previous one.                               *)
(***************************************************************************)
state == [display |-> display, previousValue |-> previousValue,
          operation |-> operation, emotion |-> emotion, mode |-> mode,
          memory |-> memory, angleUnit |-> angleUnit]

InitialState == [display |-> <<"0">>, previousValue |-> <<>>, operation |-> Null,
                 emotion |-> "neutral", mode |-> "basic", memory |-> 0,
                 angleUnit |-> "DEG"]

\* A faulty handleNumber: the cap is tested with > instead of >=.
handleNumberOffByOne(p, num) ==
    LET currentNum == unformatNumber(p.display)
        newDisplay == IF p.display = <<"0">> THEN <<num>> ELSE currentNum \o <<num>>
    IN IF Len(currentNum) > MAX_DIGITS THEN p
       ELSE [p EXCEPT !.display = formatNumber(newDisplay), !.emotion = "neutral"]

handleNumber(p, num) ==
    LET currentNum == unformatNumber(p.display)
        newDisplay == IF p.display = <<"0">> THEN <<num>> ELSE currentNum \o <<num>>
    IN IF Len(currentNum) >= MAX_DIGITS THEN p
       ELSE [p EXCEPT !.display = formatNumber(newDisplay), !.emotion = "neutral"]

\* A faulty handleOperation: the display is not captured as the left operand.
handleOperationKeepsPrevious(p, op) ==
    [p EXCEPT !.operation = op, !.display = <<"0">>, !.emotion = "neutral"]

\* A faulty handleOperation: with an operation pending, the operand held
\* stays and only the operator is replaced.
handleOperationKeepsOperand(p, op) ==
    [p EXCEPT !.previousValue = IF p.operation # Null THEN p.previousValue ELSE p.display,
              !.operation = op, !.display = <<"0">>, !.emotion = "neutral"]

handleOperation(p, op) ==
    [p EXCEPT !.previousValue = p.display, !.operation = op,
              !.display = <<"0">>, !.emotion = "neutral"]

\* The binary operators of the switch; "*" and "/" stand for the
\* multiplication and division signs.
\* A faulty switch: the operands of - and / taken in the wrong order.
applyOperationSwapped(op, prevNum, currentNum) ==
    CASE op = "+" -> jsAdd(prevNum, currentNum)
      [] op = "-" -> jsSub(currentNum, prevNum)
      [] op = "*" -> jsMul(prevNum, currentNum)
      [] op = "/" -> jsDiv(currentNum, prevNum)

applyOperation(op, prevNum, currentNum) ==
    CASE op = "+" -> jsAdd(prevNum, currentNum)
      [] op = "-" -> jsSub(prevNum, currentNum)
      [] op = "*" -> jsMul(prevNum, currentNum)
      [] op = "/" -> jsDiv(prevNum, currentNum)

\* The result as calculate stores it: cut to nine significant digits when
\* its string is longer than MAX_DIGITS.
capResult(result) ==
    IF Len(NumberToString(result)) > MAX_DIGITS
    THEN parseFloat(toExponential(result, 8))
    ELSE result

\* A faulty calculate: without a pending operation the display is recomputed from its
\* own value instead of the state being returned as it is.
calculateWithoutDefault(p) ==
    LET prevNum == parseFloat(unformatNumber(p.previousValue))
        currentNum == parseFloat(unformatNumber(p.display))
        result == IF p.operation \notin Operators THEN capResult(currentNum)
                  ELSE capResult(applyOperation(p.operation, prevNum, currentNum))
    IN [p EXCEPT !.display = formatNumber(NumberToString(result)),
                 !.previousValue = <<>>, !.operation = Null,
                 !.emotion = getEmotion(result)]

calculate(p) ==
    IF p.operation \notin Operators THEN p
    ELSE LET prevNum == parseFloat(unformatNumber(p.previousValue))
             currentNum == parseFloat(unformatNumber(p.display))
             result == capResult(applyOperation(p.operation, prevNum, currentNum))
         IN [p EXCEPT !.display = formatNumber(NumberToString(result)),
                      !.previousValue = <<>>, !.operation = Null,
                      !.emotion = getEmotion(result)]

\* A faulty handlePercent: the pending operation is ignored.
handlePercentPlain(p) ==
    LET currentNum == parseFloat(unformatNumber(p.display))
        percentValue == jsDiv(currentNum, FromNat(FALSE, 100))
    IN [p EXCEPT !.display = formatNumber(NumberToString(percentValue))]

handlePercent(p) ==
    LET currentNum == parseFloat(unformatNumber(p.display))
        hundred == FromNat(FALSE, 100)
    IN IF p.previousValue # <<>> /\ p.operation # Null
       THEN LET base == parseFloat(unformatNumber(p.previousValue))
                percentValue == jsDiv(jsMul(base, currentNum), hundred)
            IN [p EXCEPT !.display = formatNumber(NumberToString(percentValue))]
       ELSE LET percentValue == jsDiv(currentNum, hundred)
            IN [p EXCEPT !.display = formatNumber(NumberToString(percentValue))]

\* A faulty clear: the whole initial state is restored.
clearRestoresInitialState(p) == InitialState

clear(p) ==
    [p EXCEPT !.display = <<"0">>, !.previousValue = <<>>, !.operation = Null,
              !.emotion = "neutral"]

\* The switch of handleScientific; unit is state.angleUnit as the callback
\* closed over it.
scientificResult(func, currentNum, unit) ==
    CASE func \in {"sin", "cos", "tan"} ->
             IF unit = "DEG" THEN mathTrig(func, toRadians(currentNum))
             ELSE mathTrig(func, currentNum)
      [] func = "sqrt" -> mathSqrt(currentNum)
      [] func = "square" -> mathPow(currentNum, 2)
      [] func = "cube" -> mathPow(currentNum, 3)
      [] func = "log" -> mathLog(TRUE, currentNum)
      [] func = "ln" -> mathLog(FALSE, currentNum)
      [] func = "!" -> factorial(currentNum)
      [] func = "inv" -> jsDiv(One, currentNum)
      [] func = "exp" -> mathExp(currentNum)
      [] func = "pi" -> PI
      [] func = "e" -> E

\* A faulty handleScientific: the result is displayed without the NaN / finite test.
handleScientificUnchecked(p, func, unit) ==
    IF func \notin Functions THEN p
    ELSE LET currentNum == parseFloat(unformatNumber(p.display))
             result == scientificResult(func, currentNum, unit)
         IN [p EXCEPT !.display = formatNumber(NumberToString(result)),
                      !.emotion = getEmotion(result)]

handleScientific(p, func, unit) ==
    IF func \notin Functions THEN p
    ELSE LET currentNum == parseFloat(unformatNumber(p.display))
             result == scientificResult(func, currentNum, unit)
         IN IF isNaN(result) \/ ~isFinite(result)
            THEN [p EXCEPT !.display = ErrorChars, !.emotion = "sad"]
            ELSE [p EXCEPT !.display = formatNumber(NumberToString(result)),
                           !.emotion = getEmotion(result)]

\* A faulty toggleMode: leaving scientific mode also resets the angle unit.
toggleModeResetsAngleUnit(p) ==
    IF p.mode = "basic" THEN [p EXCEPT !.mode = "scientific"]
    ELSE [p EXCEPT !.mode = "basic", !.angleUnit = "DEG"]

toggleMode(p) ==
    [p EXCEPT !.mode = IF p.mode = "basic" THEN "scientific" ELSE "basic"]

toggleAngleUnit(p) ==
    [p EXCEPT !.angleUnit = IF p.angleUnit = "DEG" THEN "RAD" ELSE "DEG"]

\* The updater of the "." button.
decimalPoint(p) ==
    LET currentNum == unformatNumber(p.display)
    IN IF Includes(currentNum, ".") THEN p
       ELSE [p EXCEPT !.display = formatNumber(currentNum \o <<".">>)]

\* The updater of the backspace button.
backspace(p) ==
    LET currentNum == unformatNumber(p.display)
        cut == SubSeq(currentNum, 1, Len(currentNum) - 1)
        newDisplay == IF cut = <<>> THEN <<"0">> ELSE cut
    IN [p EXCEPT !.display = formatNumber(newDisplay)]

(***************************************************************************)
(* The component.  Every event handler calls setState once, and React      *)
(* renders before the next discrete event is dispatched: an action is one  *)
(* event, the updater it queues and the render that follows.  event is the *)
(* last event dispatched: its name, its argument (the digit, operator or   *)
(* function; for "=" and "%" the operation that was pending) and, in from, *)
(* the operation that was pending when it was dispatched.                  *)
(***************************************************************************)
Init ==
    /\ display = InitialState.display
    /\ previousValue = InitialState.previousValue
    /\ operation = InitialState.operation
    /\ emotion = InitialState.emotion
    /\ mode = InitialState.mode
    /\ memory = InitialState.memory
    /\ angleUnit = InitialState.angleUnit
    /\ rendered = [mode |-> InitialState.mode, angleUnit |-> InitialState.angleUnit]
    /\ crashed = FALSE
    /\ event = [name |-> "mount", arg |-> "", from |-> Null]

SetState(new, name, arg) ==
    /\ ~crashed
    /\ display' = new.display
    /\ previousValue' = new.previousValue
    /\ operation' = new.operation
    /\ emotion' = new.emotion
    /\ mode' = new.mode
    /\ memory' = new.memory
    /\ angleUnit' = new.angleUnit
    /\ rendered' = [mode |-> new.mode, angleUnit |-> new.angleUnit]
    /\ event' = [name |-> name, arg |-> arg, from |-> operation]
    /\ UNCHANGED crashed

\* An updater that throws: React unmounts the component.
Crash(name, arg) ==
    /\ ~crashed
    /\ crashed' = TRUE
    /\ event' = [name |-> name, arg |-> arg, from |-> operation]
    /\ UNCHANGED <<display, previousValue, operation, emotion, mode, memory,
                   angleUnit, rendered>>

currentOperand == parseFloat(unformatNumber(display))

previousOperand == parseFloat(unformatNumber(previousValue))

EntryLength == Len(unformatNumber(display))

PressDigit(num) ==
    /\ EntryLength < MaxEntry
    /\ (display = <<"0">> \/ num \in PadDigits) = TRUE
    /\ SetState(handleNumber(state, num), "digit", num)

PressDecimal ==
    /\ EntryLength < MaxEntry
    /\ SetState(decimalPoint(state), "decimal", "")

PressBackspace ==
    /\ EntryLength <= MaxEntry
    /\ SetState(backspace(state), "backspace", "")

\* The display is the text of a number, as calculate writes it.
Canonical(str) == str = formatNumber(NumberToString(parseFloat(unformatNumber(str))))

PressOperator(op) ==
    /\ IsOperand(currentOperand) = TRUE
    /\ Canonical(display)
    /\ SetState(handleOperation(state, op), "operator", op)

PressEquals ==
    /\ IF operation \in Operators
       THEN IsOperand(previousOperand) /\ IsOperand(currentOperand)
       ELSE TRUE
    /\ SetState(calculate(state), "equals", operation)

\* The percentage is taken of the operands and of the products of two
\* operands that have one significant digit.
IsPercentOperand(x) ==
    IF x.k \in {"nan", "inf"} THEN TRUE
    ELSE IsIntegerUpTo(x, MaxOperand * MaxOperand) /\ Len(x.d) <= 1 /\ ~x.neg

PressPercent ==
    /\ IsPercentOperand(currentOperand) = TRUE
    /\ IF previousValue # <<>> /\ operation # Null
       THEN IsOperand(previousOperand)
       ELSE TRUE
    /\ SetState(handlePercent(state), "percent", operation)

PressClear == SetState(clear(state), "clear", "")

\* A faulty render: the scientific buttons are there in either mode.
PressScientificInAnyMode(func) ==
    /\ Computable(func, currentOperand) = TRUE
    /\ IF func = "!" /\ factorialOverflows(currentOperand)
       THEN Crash("scientific", func)
       ELSE SetState(handleScientific(state, func, rendered.angleUnit), "scientific", func)

\* The scientific buttons are rendered in scientific mode only.
PressScientific(func) ==
    /\ rendered.mode = "scientific"
    /\ Computable(func, currentOperand) = TRUE
    /\ IF func = "!" /\ factorialOverflows(currentOperand)
       THEN Crash("scientific", func)
       ELSE SetState(handleScientific(state, func, rendered.angleUnit), "scientific", func)

PressToggleMode == SetState(toggleMode(state), "toggleMode", "")

PressToggleAngleUnit ==
    /\ rendered.mode = "scientific"
    /\ SetState(toggleAngleUnit(state), "toggleAngleUnit", "")

Next ==
    \/ \E num \in Digits : PressDigit(num)
    \/ PressDecimal
    \/ PressBackspace
    \/ \E op \in Operators : PressOperator(op)
    \/ PressEquals
    \/ PressPercent
    \/ PressClear
    \/ \E func \in Functions : PressScientific(func)
    \/ PressToggleMode
    \/ PressToggleAngleUnit

Spec == Init /\ [][Next]_vars

(***************************************************************************)
(* The keyboard.  The keydown listener maps a key to the handler of a      *)
(* button, or to an updater of its own for "." and Backspace; buttonClick  *)
(* is the onClick of the button with the given label ("<-", "*" and "/"    *)
(* stand for the backspace arrow, the multiplication and division signs).  *)
(***************************************************************************)
DivisionSignKey == "division sign"

Keys == Digits \cup {".", "+", "-", "*", "x", "X", "/", DivisionSignKey, "Enter", "=",
                     "Backspace", "%", "c", "C", "a"}

\* The updater of the "." key.
keyDecimalPoint(p) ==
    LET currentNum == unformatNumber(p.display)
    IN IF Includes(currentNum, ".") THEN p
       ELSE [p EXCEPT !.display = formatNumber(currentNum \o <<".">>)]

\* The updater of the Backspace key.
keyBackspace(p) ==
    LET currentNum == unformatNumber(p.display)
        cut == SubSeq(currentNum, 1, Len(currentNum) - 1)
        newDisplay == IF cut = <<>> THEN <<"0">> ELSE cut
    IN [p EXCEPT !.display = formatNumber(newDisplay)]

\* A faulty handleKeyDown: e.repeat is not tested.
handleKeyDownOnRepeatToo(p, key, repeat) ==
    IF IsDigit(key) THEN handleNumber(p, key)
    ELSE IF key = "." THEN keyDecimalPoint(p)
    ELSE IF key = "+" \/ key = "-" THEN handleOperation(p, key)
    ELSE IF key = "*" \/ key = "x" \/ key = "X" THEN handleOperation(p, "*")
    ELSE IF key = "/" \/ key = DivisionSignKey THEN handleOperation(p, "/")
    ELSE IF key = "Enter" \/ key = "=" THEN calculate(p)
    ELSE IF key = "Backspace" THEN keyBackspace(p)
    ELSE IF key = "%" THEN handlePercent(p)
    ELSE IF key = "c" \/ key = "C" THEN clear(p)
    ELSE p

handleKeyDown(p, key, repeat) ==
    IF repeat THEN p
    ELSE IF IsDigit(key) THEN handleNumber(p, key)
    ELSE IF key = "." THEN keyDecimalPoint(p)
    ELSE IF key = "+" \/ key = "-" THEN handleOperation(p, key)
    ELSE IF key = "*" \/ key = "x" \/ key = "X" THEN handleOperation(p, "*")
    ELSE IF key = "/" \/ key = DivisionSignKey THEN handleOperation(p, "/")
    ELSE IF key = "Enter" \/ key = "=" THEN calculate(p)
    ELSE IF key = "Backspace" THEN keyBackspace(p)
    ELSE IF key = "%" THEN handlePercent(p)
    ELSE IF key = "c" \/ key = "C" THEN clear(p)
    ELSE p

buttonClick(p, label) ==
    CASE label = "C" -> clear(p)
      [] label = "<-" -> backspace(p)
      [] label = "%" -> handlePercent(p)
      [] label \in Operators -> handleOperation(p, label)
      [] IsDigit(label) -> handleNumber(p, label)
      [] label = "." -> decimalPoint(p)
      [] label = "=" -> calculate(p)

\* The keys the model presses in a state: those whose handler stays within
\* the bounds of the entry and of the arithmetic, as for the buttons.
KeyAdmitted(key) ==
    IF IsDigit(key) THEN EntryLength < MaxEntry /\ (display = <<"0">> \/ key \in PadDigits)
    ELSE IF key = "." THEN EntryLength < MaxEntry
    ELSE IF key = "Backspace" THEN EntryLength <= MaxEntry
    ELSE IF key \in {"+", "-", "*", "x", "X", "/", DivisionSignKey}
         THEN IsOperand(currentOperand) /\ Canonical(display)
    ELSE IF key \in {"Enter", "="}
         THEN (IF operation \in Operators
               THEN IsOperand(previousOperand) /\ IsOperand(currentOperand)
               ELSE TRUE)
    ELSE IF key = "%"
         THEN IsPercentOperand(currentOperand)
              /\ (IF previousValue # <<>> /\ operation # Null
                  THEN IsOperand(previousOperand)
                  ELSE TRUE)
    ELSE TRUE

\* A keydown event; a repeat is one that the held key generates.
KeyDown(key, repeat) ==
    /\ (repeat \/ KeyAdmitted(key)) = TRUE
    /\ SetState(handleKeyDown(state, key, repeat),
                IF repeat THEN "repeat" ELSE "keydown",
                IF repeat THEN "" ELSE key)

\* The keyboard, with the pointer for what has no key: the mode and the
\* scientific functions.
NextKeyboard ==
    \/ \E key \in Keys, repeat \in BOOLEAN : KeyDown(key, repeat)
    \/ PressToggleMode
    \/ \E func \in Functions : PressScientific(func)

SpecKeyboard == Init /\ [][NextKeyboard]_vars

(***************************************************************************)
(* Events dispatched in one task.  React renders the updates a click       *)
(* queues before the browser dispatches the next click, but events that a  *)
(* script dispatches in one task are all handled by the handlers of the    *)
(* last render: their updaters run in order, each on the state the one     *)
(* before it left, and the render follows.  Here an event applies its      *)
(* updater and leaves rendered - what the handlers and the DOM were built  *)
(* from - as it is; Render is the render.                                  *)
(***************************************************************************)
Queue(new, name, arg) ==
    /\ ~crashed
    /\ display' = new.display
    /\ previousValue' = new.previousValue
    /\ operation' = new.operation
    /\ emotion' = new.emotion
    /\ mode' = new.mode
    /\ memory' = new.memory
    /\ angleUnit' = new.angleUnit
    /\ event' = [name |-> name, arg |-> arg, from |-> operation]
    /\ UNCHANGED <<rendered, crashed>>

Render ==
    /\ ~crashed
    /\ rendered # [mode |-> mode, angleUnit |-> angleUnit]
    /\ rendered' = [mode |-> mode, angleUnit |-> angleUnit]
    /\ event' = [name |-> "render", arg |-> "", from |-> operation]
    /\ UNCHANGED <<display, previousValue, operation, emotion, mode, memory,
                   angleUnit, crashed>>

DispatchDigit(num) ==
    /\ EntryLength < MaxEntry
    /\ (display = <<"0">> \/ num \in PadDigits) = TRUE
    /\ Queue(handleNumber(state, num), "digit", num)

DispatchClear == Queue(clear(state), "clear", "")

DispatchScientific(func) ==
    /\ rendered.mode = "scientific"
    /\ Computable(func, currentOperand) = TRUE
    /\ IF func = "!" /\ factorialOverflows(currentOperand)
       THEN Crash("scientific", func)
       ELSE Queue(handleScientific(state, func, rendered.angleUnit), "scientific", func)

DispatchToggleMode == Queue(toggleMode(state), "toggleMode", "")

DispatchToggleAngleUnit ==
    /\ rendered.mode = "scientific"
    /\ Queue(toggleAngleUnit(state), "toggleAngleUnit", "")

NextBatched ==
    \/ \E num \in Digits : DispatchDigit(num)
    \/ DispatchClear
    \/ \E func \in Functions : DispatchScientific(func)
    \/ DispatchToggleMode
    \/ DispatchToggleAngleUnit
    \/ Render

SpecBatched == Init /\ [][NextBatched]_vars

(***************************************************************************)
(* Entry up to the cap.  The digit keys, the decimal point and backspace   *)
(* act on a display of any length; a subtraction supplies displays that    *)
(* carry an emotion.                                                       *)
(***************************************************************************)
TypeDigit(num) ==
    /\ (display = <<"0">> \/ num \in PadDigits) = TRUE
    /\ SetState(handleNumber(state, num), "digit", num)

TypeDecimal == SetState(decimalPoint(state), "decimal", "")

TypeBackspace == SetState(backspace(state), "backspace", "")

NextEntry ==
    \/ \E num \in Digits : TypeDigit(num)
    \/ TypeDecimal
    \/ TypeBackspace
    \/ PressOperator("-")
    \/ PressEquals
    \/ PressClear

SpecEntry == Init /\ [][NextEntry]_vars

(***************************************************************************)
(* formatNumber on its own.  The display holds an unformatted string - an  *)
(* optional minus sign, digits, an optional fraction - and one step        *)
(* replaces it by formatNumber of it.                                      *)
(***************************************************************************)
FormatDigits == {"0", "7"}

DigitStrings(k) == [1..k -> FormatDigits]

UnformattedStrings ==
    {sign \o int \o frac :
        sign \in {<<>>, <<"-">>},
        int \in UNION {DigitStrings(k) : k \in 1..MaxIntegerLen},
        frac \in {<<>>} \cup {<<".">> \o f :
                                 f \in UNION {DigitStrings(k) : k \in 0..MaxFractionLen}}}

InitFormat ==
    /\ display \in UnformattedStrings
    /\ previousValue = InitialState.previousValue
    /\ operation = InitialState.operation
    /\ emotion = InitialState.emotion
    /\ mode = InitialState.mode
    /\ memory = InitialState.memory
    /\ angleUnit = InitialState.angleUnit
    /\ rendered = [mode |-> InitialState.mode, angleUnit |-> InitialState.angleUnit]
    /\ crashed = FALSE
    /\ event = [name |-> "mount", arg |-> "", from |-> Null]

ApplyFormat ==
    /\ event.name = "mount"
    /\ display' = formatNumber(display)
    /\ event' = [name |-> "format", arg |-> "", from |-> Null]
    /\ UNCHANGED <<previousValue, operation, emotion, mode, memory, angleUnit,
                   rendered, crashed>>

NextFormat == ApplyFormat

SpecFormat == InitFormat /\ [][NextFormat]_vars

(***************************************************************************)
(* The properties.  Those that relate the state before a handler to the    *)
(* state after it are step properties [][A]_vars; those about the state a  *)
(* handler leaves are invariants that read event, the last event.          *)
(***************************************************************************)
\* The last event was "=" with an operation pending.
Calculated == event.name = "equals" /\ event.arg \in Operators

\* The last event was a scientific button whose updater returned.
AppliedUnary == event.name = "scientific" /\ ~crashed

\* The number that the display shows.
DisplayedNumber == parseFloat(unformatNumber(display))

\* The text is a string of decimal digits, as the digit keys type it.
Typed(str) == str # <<>> /\ \A i \in 1..Len(str) : IsDigit(str[i])

\* The value of a string of decimal digits.
TypedValue(str) == DigitsToNat(CharsToDigits(unformatNumber(str)))

----------------------------------------------------------------------------
\* C1: in every reachable state, operation is non-null exactly when
\* previousValue is non-empty.
C1_OperationIffPreviousValue == (operation # Null) <=> (previousValue # <<>>)

\* An operator has just been pressed: an operation is pending and the left
\* operand is held.
C1_Witness ==
    /\ event.name = "operator"
    /\ operation \in Operators
    /\ previousValue # <<>>

----------------------------------------------------------------------------
\* C2 (as stated): in every reachable state the display, commas removed, is
\* at most 16 characters long.
C2_DisplayWithinMaxDigits == Len(unformatNumber(display)) <= MAX_DIGITS

----------------------------------------------------------------------------
\* The whole of str is a decimal literal: an optional sign, digits with an
\* optional fraction, an optional exponent, and nothing after them.
ParsesInFull(str) ==
    LET signed == Len(str) > 0 /\ str[1] \in {"+", "-"}
        body == IF signed THEN Tail(str) ELSE str
        i == DigitRun(body, 1)
        hasDot == Len(body) > i /\ body[i + 1] = "."
        f == IF hasDot THEN DigitRun(body, i + 2) ELSE 0
        mantEnd == IF hasDot THEN i + 1 + f ELSE i
        ex == ExponentPart(body, mantEnd + 1)
    IN (i > 0 \/ f > 0) /\ mantEnd + ex.taken = Len(body)

\* C3 (as stated): in every reachable state the display, commas removed,
\* parses in full as a finite number, or the display is "Error".
C3_DisplayNumericOrError ==
    display = ErrorChars \/ ParsesInFull(unformatNumber(display))

----------------------------------------------------------------------------
\* C4: "=" with no operation pending leaves every field of the state as it
\* was.
C4_CalculateWithoutOperationIsNoOp ==
    [][(event'.name = "equals" /\ operation = Null)
          => UNCHANGED <<display, previousValue, operation, emotion, mode,
                         memory, angleUnit>>]_vars

\* "=" was pressed with nothing pending, on a state that is not the initial
\* one.
C4_Witness ==
    /\ event.name = "equals"
    /\ event.arg = Null
    /\ display # <<"0">>
    /\ emotion # "neutral"

----------------------------------------------------------------------------
\* "=" is pressed with an operation pending and both operands strings of
\* digits.
C5_Case == 
    /\ event'.name = "equals"
    /\ operation \in Operators
    /\ Typed(unformatNumber(previousValue))
    /\ Typed(unformatNumber(display))

\* a op b, where a and b are the operands held before "=".
C5_Result ==
    applyOperation(operation, parseFloat(unformatNumber(previousValue)),
                   parseFloat(unformatNumber(display)))

\* a op b rounded to nine significant digits when its decimal string is
\* longer than 16 characters, and a op b otherwise.
C5_Shown ==
    IF Len(NumberToString(C5_Result)) > MAX_DIGITS
    THEN parseFloat(toExponential(C5_Result, 8))
    ELSE C5_Result

\* The operands a, b and the operator held before "=".
C5_Operands(a, op, b) ==
    /\ previousValue = NatToChars(a)
    /\ operation = op
    /\ display = NatToChars(b)

\* C5 (as stated): for operands a and b entered by digit keys and an
\* operator op, after "=" the display is format(a op b), previousValue is
\* empty and operation is null.
C5_DisplayIsFormatOfResult ==
    [][C5_Case => /\ display' = formatNumber(NumberToString(C5_Result))
                  /\ previousValue' = <<>>
                  /\ operation' = Null]_vars

\* C5 (amended): after "=" the display is format(r), where r is a op b, or
\* a op b rounded to nine significant digits when the decimal string of
\* a op b is longer than 16 characters; previousValue is empty and
\* operation is null.  So 1 + 3 shows 4, 1 - 5 shows -4, 50 * 50 shows
\* 2,500, 1 / 3 shows 0.333333333 and 2 / 3 shows 0.666666667.
C5_DisplayIsFormatOfRoundedResult ==
    [][C5_Case => /\ display' = formatNumber(NumberToString(C5_Shown))
                  /\ previousValue' = <<>>
                  /\ operation' = Null
                  /\ C5_Operands(1, "+", 3) => display' = <<"4">>
                  /\ C5_Operands(1, "-", 5) => display' = <<"-", "4">>
                  /\ C5_Operands(50, "*", 50) => display' = <<"2", ",", "5", "0", "0">>
                  /\ C5_Operands(1, "/", 3)
                        => display' = <<"0", ".">> \o Repeat("3", 9)
                  /\ C5_Operands(2, "/", 3)
                        => display' = <<"0", ".">> \o Repeat("6", 8) \o <<"7">>]_vars

\* 1 / 3 has been calculated: the display holds nine significant digits.
C5_Witness ==
    /\ event.name = "equals"
    /\ event.arg = "/"
    /\ display = <<"0", ".">> \o Repeat("3", 9)
    /\ previousValue = <<>>
    /\ operation = Null

----------------------------------------------------------------------------
\* The integer part of a non-negative finite number below 10^4.
WholePart(r) ==
    IF r.n <= 0 THEN 0
    ELSE DigitsToNat(SubSeq(r.d \o <<0, 0, 0, 0>>, 1, r.n))

\* A finite number has digits after the decimal point.
HasFraction(r) == Len(r.d) > r.n

\* r > bound, for a non-negative finite r and a natural bound below 10^4.
Exceeds(r, bound) ==
    \/ r.n > 4
    \/ r.n <= 4 /\ WholePart(r) > bound
    \/ r.n <= 4 /\ WholePart(r) = bound /\ HasFraction(r)

\* The emotion of the magnitude rule: more than 1000 excited, more than 100
\* and at most 1000 happy, less than 0 sad, anything else neutral.
MagnitudeRule(r) ==
    IF r.k = "nan" THEN "neutral"
    ELSE IF r.k = "inf" THEN (IF r.neg THEN "sad" ELSE "excited")
    ELSE IF r.d = <<>> THEN "neutral"
    ELSE IF r.neg THEN "sad"
    ELSE IF Exceeds(r, 1000) THEN "excited"
    ELSE IF Exceeds(r, 100) THEN "happy"
    ELSE "neutral"

----------------------------------------------------------------------------
\* A calculation or a scientific function has just produced the display.
C7_Computed == Calculated \/ AppliedUnary

----------------------------------------------------------------------------
\* The decimal string of n / 100 for a natural n.
Hundredths(n) ==
    LET f == n % 100
    IN NatToChars(n \div 100)
       \o (IF f = 0 THEN <<>>
           ELSE IF f % 10 = 0 THEN <<".", DigitChar(f \div 10)>>
           ELSE <<".", DigitChar(f \div 10), DigitChar(f % 10)>>)

\* C8: "%" with an operation pending sets the display to
\* format(previousValue * display / 100); without one, to
\* format(display / 100).  In both cases operation, previousValue and the
\* emotion stay as they were.  With 50 held and 10 shown, the display
\* becomes 5.
C8_PercentOfPendingOrPlain ==
    [][event'.name = "percent"
          => /\ operation' = operation
             /\ previousValue' = previousValue
             /\ emotion' = emotion
             /\ (Typed(unformatNumber(display)) /\ operation # Null
                    /\ Typed(unformatNumber(previousValue)))
                   => display' = formatNumber(Hundredths(TypedValue(previousValue)
                                                         * TypedValue(display)))
             /\ (Typed(unformatNumber(display)) /\ operation = Null)
                   => display' = formatNumber(Hundredths(TypedValue(display)))]_vars

\* "%" was pressed with 50 held, an operation pending and 10 shown: the
\* display is 5 and the operation is still pending.
C8_Witness ==
    /\ event.name = "percent"
    /\ event.arg \in Operators
    /\ previousValue = <<"5", "0">>
    /\ operation = event.arg
    /\ display = <<"5">>

----------------------------------------------------------------------------
\* A scientific button is pressed and its updater returns.
C9_Case == event'.name = "scientific" /\ ~crashed'

\* The result that the function computes is NaN or not finite.
C9_ResultNotFinite ==
    LET result == scientificResult(event'.arg, currentOperand, rendered.angleUnit)
    IN isNaN(result) \/ ~isFinite(result)

\* C9: whenever a scientific function computes a result that is NaN or not
\* finite, the display becomes "Error", the emotion becomes sad, and
\* previousValue, operation, mode and angleUnit stay as they were.  The
\* square root of -4, the logarithm of 0 and the inverse of 0 are such
\* results.
C9_NonFiniteResultShowsError ==
    [][IF C9_Case
       THEN /\ C9_ResultNotFinite
               => /\ display' = ErrorChars
                  /\ emotion' = "sad"
                  /\ previousValue' = previousValue
                  /\ operation' = operation
                  /\ mode' = mode
                  /\ angleUnit' = angleUnit
            /\ (display = <<"-", "4">> /\ event'.arg = "sqrt") => display' = ErrorChars
            /\ (display = <<"0">> /\ event'.arg \in {"log", "ln", "inv"})
                  => display' = ErrorChars /\ emotion' = "sad"
       ELSE TRUE]_vars

\* The logarithm of 0 was taken with an operation pending: "Error" is shown
\* with the sad emotion and the operation is still pending.
C9_Witness ==
    /\ event.name = "scientific"
    /\ event.arg = "log"
    /\ ~crashed
    /\ display = ErrorChars
    /\ emotion = "sad"
    /\ operation \in Operators
    /\ previousValue # <<>>

----------------------------------------------------------------------------
\* C10: the factorial of a display of 0 and of 1 shows 1; the factorial of
\* a negative display value shows "Error" with the sad emotion.
C10_FactorialBaseAndNegative ==
    [][(event'.name = "scientific" /\ event'.arg = "!" /\ ~crashed')
          => /\ display \in {<<"0">>, <<"1">>} => display' = <<"1">>
             /\ jsNegative(currentOperand)
                   => display' = ErrorChars /\ emotion' = "sad"]_vars

\* The factorial button was pressed and 1 is shown: the argument was 0 or 1.
C10_Witness ==
    /\ event.name = "scientific"
    /\ event.arg = "!"
    /\ ~crashed
    /\ display = <<"1">>

----------------------------------------------------------------------------
\* C11: the scientific functions are available in scientific mode only: in
\* a state whose mode is basic no scientific function (sin, cos, tan, sqrt,
\* square, cube, log, ln, factorial, reciprocal, exp, pi, e) is dispatched,
\* so none changes the state.
C11_ScientificOnlyInScientificMode ==
    [][event'.name = "scientific" => mode = "scientific"]_vars

\* The mode is basic again after a scientific function was used: the last
\* event switched the mode back, and the display still shows Math.PI.
C11_Witness ==
    /\ event.name = "toggleMode"
    /\ mode = "basic"
    /\ display = formatNumber(NumberToString(PI))

----------------------------------------------------------------------------
\* C12: unformat(format(s)) = s for every unformatted string s without a
\* grouping separator (digits with an optional leading minus sign and an
\* optional fraction).
C12_UnformatInvertsFormat ==
    [][event'.name = "format" => unformatNumber(display') = display]_vars

\* A negative number of seven integer digits has been formatted: two commas
\* were inserted, none in the fraction.
C12_Witness ==
    /\ event.name = "format"
    /\ display = <<"-", "7", ",", "0", "0", "0", ",", "0", "0", "7", ".", "7", "0", "0">>

----------------------------------------------------------------------------
\* C13: toggleAngleUnit changes angleUnit only (DEG <-> RAD) and toggleMode
\* changes mode only (basic <-> scientific): each leaves display,
\* previousValue, operation, emotion and every other field unchanged, and
\* either toggle applied twice gives the original state back.
C13_TogglesChangeOneField ==
    [][/\ event'.name = "toggleMode"
          => /\ mode' = (IF mode = "basic" THEN "scientific" ELSE "basic")
             /\ UNCHANGED <<display, previousValue, operation, emotion, memory, angleUnit>>
       /\ event'.name = "toggleAngleUnit"
          => /\ angleUnit' = (IF angleUnit = "DEG" THEN "RAD" ELSE "DEG")
             /\ UNCHANGED <<display, previousValue, operation, emotion, memory, mode>>
       /\ toggleMode(toggleMode(state)) = state
       /\ toggleAngleUnit(toggleAngleUnit(state)) = state
       /\ toggleMode(toggleMode(state')) = state'
       /\ toggleAngleUnit(toggleAngleUnit(state')) = state']_vars

\* The angle unit was switched to RAD while a result was shown with a
\* non-neutral emotion.
C13_Witness ==
    /\ event.name = "toggleAngleUnit"
    /\ angleUnit = "RAD"
    /\ mode = "scientific"
    /\ display # <<"0">>
    /\ emotion # "neutral"

----------------------------------------------------------------------------
\* C14: a digit d is a no-op (the whole state unchanged) when the
\* unformatted display has 16 or more characters; otherwise d is appended
\* to the unformatted display, or replaces it when the display is exactly
\* "0", and the emotion becomes neutral; from a display of at most 16
\* characters the result is never longer than 16.
C14_DigitEntryStopsAtCap ==
    [][event'.name = "digit"
          => LET cur == unformatNumber(display)
                 d == event'.arg
             IN IF Len(cur) >= 16
                THEN UNCHANGED <<display, previousValue, operation, emotion, mode,
                                 memory, angleUnit>>
                ELSE /\ unformatNumber(display')
                           = (IF display = <<"0">> THEN <<d>> ELSE cur \o <<d>>)
                     /\ emotion' = "neutral"
                     /\ UNCHANGED <<previousValue, operation, mode, memory, angleUnit>>
                     /\ Len(unformatNumber(display')) <= 16]_vars

\* Sixteen digits have been typed: the display is at the cap.
C14_Witness ==
    /\ event.name = "digit"
    /\ unformatNumber(display) = <<"1">> \o Repeat("0", 15)

----------------------------------------------------------------------------
\* C15: selecting an operation sets previousValue to the display, operation
\* to the operator, the display to "0" and the emotion to neutral, and
\* evaluates nothing: an operation already pending is discarded with its
\* operand, so a, op1, b, op2, c, "=" gives b op2 c.
C15_SelectOperationCapturesDisplay ==
    [][event'.name = "operator"
          => /\ previousValue' = display
             /\ operation' = event'.arg
             /\ display' = <<"0">>
             /\ emotion' = "neutral"
             /\ UNCHANGED <<mode, memory, angleUnit>>]_vars

\* "+" was selected while 5 "*" was pending with 3 shown: 3 is held, not 15.
C15_Witness ==
    /\ event.name = "operator"
    /\ event.from = "*"
    /\ operation = "+"
    /\ previousValue = <<"3">>

----------------------------------------------------------------------------
\* C16 (as stated): a sin, cos or tan evaluation converts degrees to
\* radians exactly when the state's angleUnit is DEG at the time of the
\* evaluation, for every interleaving of toggle and trig events, one
\* dispatched before the render that follows the toggle included.
C16_TrigUsesCurrentAngleUnit ==
    [][(event'.name = "scientific" /\ event'.arg \in {"sin", "cos", "tan"})
          => display' = handleScientific(state, event'.arg, angleUnit).display]_vars

----------------------------------------------------------------------------
\* The factorial button is pressed.
C17_Case == event'.name = "scientific" /\ event'.arg = "!"

\* The display shows a finite number that is not an integer.
C17_NonInteger == currentOperand.k = "fin" /\ Len(currentOperand.d) > currentOperand.n

----------------------------------------------------------------------------
\* C18 (as stated): the emotion is a function of the number shown: after an
\* operation that changes the display without a computation under the
\* magnitude rule (percent, backspace, the decimal point) the emotion is
\* the one that the magnitude rule assigns to the value shown.
C18_EmotionFollowsShownValue ==
    event.name \in {"percent", "backspace", "decimal"}
        => emotion = MagnitudeRule(DisplayedNumber)

----------------------------------------------------------------------------
\* The label of the button that corresponds to a key.
C19_ButtonFor(key) ==
    CASE IsDigit(key) -> key
      [] key \in {".", "+", "-", "%", "="} -> key
      [] key \in {"*", "x", "X"} -> "*"
      [] key \in {"/", DivisionSignKey} -> "/"
      [] key = "Enter" -> "="
      [] key = "Backspace" -> "<-"
      [] key \in {"c", "C"} -> "C"

----------------------------------------------------------------------------
\* C20: from every reachable state, whatever the display holds, clear
\* leaves display "0", previousValue empty, operation null and emotion
\* neutral, and leaves mode, angleUnit and memory as they were; memory is 0
\* in every reachable state.
C20_ClearResetsEntryOnly ==
    [][/\ memory = 0
       /\ memory' = 0
       /\ event'.name = "clear"
          => /\ display' = <<"0">>
             /\ previousValue' = <<>>
             /\ operation' = Null
             /\ emotion' = "neutral"
             /\ UNCHANGED <<mode, angleUnit, memory>>]_vars

\* Cleared with an operation pending, in scientific mode with radians.
C20_Witness ==
    /\ event.name = "clear"
    /\ event.from = "/"
    /\ mode = "scientific"
    /\ angleUnit = "RAD"
    /\ display = <<"0">>
    /\ previousValue = <<>>

=============================================================================
